---- MODULE Spec2Model ----
(***************************************************************************)
(* The Loki datasource of public/app/plugins/datasource/loki/datasource.ts *)
(* as a state machine: one datasource instance, one call made on it by the *)
(* caller (query or getLogRowContext), the HTTP requests that call has     *)
(* issued, and the backend's answers arriving in any order.                *)
(*                                                                         *)
(* A sub-execution is one observable that query() builds (runInstantQuery, *)
(* runRangeQueryWithFallback, runLiveQuery) or the observable chain of     *)
(* getLogRowContext.  Each keeps the requests issued on its behalf and the *)
(* envelopes it has delivered, in its own emission order; the merged       *)
(* output of query() is these per-sub-execution streams together with the  *)
(* terminal event of the merge (status, failure).                          *)
(***************************************************************************)
EXTENDS Integers, Sequences, FiniteSets, TLC

VARIABLES
    version,    \* LokiDatasource.version: "" (unset), "v1" or "v0"
    request,    \* the argument of the call the caller makes
    status,     \* the returned observable/promise as the caller sees it
    failure,    \* the error delivered to the caller, NoError before
    direct,     \* envelopes the returned observable emits by itself (of(...))
    subs,       \* the sub-executions, in the order query() created them
    streams,    \* LiveStreams: url -> the sub-executions attached to its socket
    batches,    \* live batches delivered so far
    sockets,    \* url -> the connections to it that are open
    built       \* the query parameters a builder returned, NotBuilt before

vars == <<version, request, status, failure, direct, subs, streams, batches,
          sockets, built>>

\* ------------------------------------------------------------ bounds
MaxTargets == 2
MaxBatches == 1

\* --------------------------------------------------------- constants
LEGACY_QUERY_ENDPOINT == "/api/prom/query"
RANGE_QUERY_ENDPOINT == "/loki/api/v1/query_range"
INSTANT_QUERY_ENDPOINT == "/loki/api/v1/query"
LEGACY_TAIL_ENDPOINT == "/api/prom/tail"
TAIL_ENDPOINT == "/loki/api/v1/tail"
LABEL_ENDPOINT == "/loki/api/v1/label"
LEGACY_LABEL_ENDPOINT == "/api/prom/label"

ExploreMode == {"Metrics", "Logs", "None"}
LokiResultType == {"streams", "matrix", "vector"}

RefIds == <<"A", "B", "C", "D">>
Exprs == {"", "{job=\"app\"}"}

\* LokiQuery, as far as query() reads it: a plain target, a live one, a
\* hidden one, one with an empty expression, and a hidden live one.
TargetKinds ==
    {[expr |-> "{job=\"app\"}", hide |-> FALSE, liveStreaming |-> FALSE],
     [expr |-> "{job=\"app\"}", hide |-> FALSE, liveStreaming |-> TRUE],
     [expr |-> "{job=\"app\"}", hide |-> TRUE, liveStreaming |-> FALSE],
     [expr |-> "", hide |-> FALSE, liveStreaming |-> FALSE],
     [expr |-> "{job=\"app\"}", hide |-> TRUE, liveStreaming |-> TRUE]}

Targets(n) == [1..n -> TargetKinds]

TargetLists ==
    UNION {{[i \in 1..n |-> [refId |-> RefIds[i], expr |-> f[i].expr,
                             hide |-> f[i].hide,
                             liveStreaming |-> f[i].liveStreaming]] :
            f \in Targets(n)} : n \in 0..MaxTargets}

\* DataQueryRequest<LokiQuery>, as far as query() reads it.
QueryRequests ==
    {[op |-> "query", exploreMode |-> m, targets |-> ts] :
        m \in ExploreMode, ts \in TargetLists}

\* The arguments of getLogRowContext.
ContextRequests ==
    {[op |-> "context", direction |-> d] : d \in {"BACKWARD", "FORWARD"}}

\* testDatasource takes no argument.
TestRequests == {[op |-> "test"]}

\* ------------------------------------------------- requests, responses
Pending == [kind |-> "pending", status |-> 0, statusText |-> "", body |-> ""]

\* _request: one call of backendSrv.datasourceRequest, answered later.
Request(apiUrl, op) == [endpoint |-> apiUrl, op |-> op, resp |-> Pending]

\* What backendSrv.datasourceRequest rejects with.
ErrorResponses ==
    {[kind |-> "err", status |-> 404, statusText |-> "Not Found", body |-> ""],
     [kind |-> "err", status |-> 500, statusText |-> "Internal Server Error",
      body |-> ""],
     [kind |-> "err", status |-> 400, statusText |-> "Bad Request",
      body |-> "parse error"]}

\* A rejection that carries cancelled: true.
CancelledResponse ==
    [kind |-> "cancelled", status |-> 0, statusText |-> "", body |-> ""]

\* 2xx answers of the modern endpoints: the body declares its resultType.
ModernResponses(resultTypes) ==
    {[kind |-> "ok", status |-> 200, statusText |-> "OK", body |-> rt] :
        rt \in resultTypes}

\* The backend evaluates a range query to streams or a matrix, an instant
\* query to streams or a vector.
RangeResponses == ModernResponses({"streams", "matrix"})
InstantResponses == ModernResponses({"streams", "vector"})

\* Answers to the probe of getVersion, which reads the status of a failure
\* and nothing else: a 2xx, a 404 and another failure.
ProbeResponses ==
    {[kind |-> "ok", status |-> 200, statusText |-> "OK", body |-> ""],
     [kind |-> "err", status |-> 404, statusText |-> "Not Found", body |-> ""],
     [kind |-> "err", status |-> 500, statusText |-> "Internal Server Error",
      body |-> ""]}

\* 2xx answer of the legacy endpoint: {streams: [...]}.
LegacyResponses ==
    {[kind |-> "ok", status |-> 200, statusText |-> "OK", body |-> "legacy"]}

\* 2xx answers of the label endpoints: {values: [...]} with labels, or
\* with an empty or absent values array.
LabelResponses ==
    {[kind |-> "ok", status |-> 200, statusText |-> "OK", body |-> b] :
        b \in {"values", "novalues"}}

\* No builder has returned yet.
NotBuilt == [op |-> "none"]

\* ------------------------------------------------------------- errors
NoError == [message |-> ""]

UnknownErrorMessage ==
    "Unknown error during query transaction. Please check JS console logs."

MetricsModeMessage ==
    "Metrics mode does not support logs. Use an aggregation or switch to Logs mode."

LogsModeMessage ==
    "Logs mode does not support queries that return time series data. Please perform a logs query or switch to Metrics mode."

ContextErrorMessage ==
    "Error during context query. Please check JS console logs."

\* new Error(message): a message and nothing else.
PlainError(message) == [message |-> message]

\* processError that leaves the refId out.
processError_NoRefId(err, refId) ==
    [message |-> IF err.body # "" THEN err.body
                 ELSE IF err.statusText # "" THEN err.statusText
                 ELSE UnknownErrorMessage,
     status |-> err.status,
     statusText |-> err.statusText]

\* processError: the DataQueryError of a failed request of target refId.
processError(err, refId) ==
    [message |-> IF err.body # "" THEN err.body
                 ELSE IF err.statusText # "" THEN err.statusText
                 ELSE UnknownErrorMessage,
     refId |-> refId,
     status |-> err.status,
     statusText |-> err.statusText]

\* The outcome of one step of an observable chain.
Emits(env) == [tag |-> "next", val |-> env]
Throws(err) == [tag |-> "error", val |-> err]
Nothing == [tag |-> "empty", val |-> NoError]

\* throwUnless followed by the chain's filter on response.cancelled:
\* the error goes on as a value when condition holds, and is thrown
\* as a DataQueryError otherwise.
throwUnless(err, condition, refId) ==
    IF condition THEN Emits(err) ELSE Throws(processError(err, refId))

\* ---------------------------------------------------------- converters
\* isTimeSeries: data.hasOwnProperty('datapoints').
isTimeSeries(d) == "datapoints" \in DOMAIN d

\* lokiLegacyStreamsToDataframes(response.data, ...): data frames made of
\* the legacy body.
lokiLegacyStreamsToDataframes(body) ==
    <<[fields |-> <<"lokiLegacyStreamsToDataframes", body>>]>>

\* lokiResultsToTableModel(response.data.data.result, responseListLength,
\* ...): one table.
lokiResultsToTableModel(body, responseListLength) ==
    [columns |-> <<"lokiResultsToTableModel", body, responseListLength>>]

\* processRangeQueryResponse(response.data, target, query,
\* responseListLength, ...): one envelope; data frames for a streams
\* result, time series for a matrix or vector.
processRangeQueryResponse(body, refId, responseListLength) ==
    IF body = "streams"
    THEN [data |-> <<[fields |-> <<"processRangeQueryResponse", body,
                                   responseListLength>>]>>,
          key |-> <<refId, "_log">>]
    ELSE [data |-> <<[datapoints |-> <<"processRangeQueryResponse", body,
                                       responseListLength>>]>>,
          key |-> <<refId, "_ts">>]

\* lokiStreamResultToDataFrame / legacyLogStreamToDataFrame mapped over the
\* streams of a context response.
contextFrames(converter, body, reverse) ==
    <<[fields |-> <<converter, body, reverse>>]>>

\* ------------------------------------------------------ sub-executions
OpenStages == {"instant", "modern", "legacy", "version", "resolved", "streaming"}

IsOpen(sub) == sub.stage \in OpenStages

\* The request a sub-execution waits for (0: none).
PendingReq(sub) ==
    IF \E k \in DOMAIN sub.reqs : sub.reqs[k].resp = Pending
    THEN CHOOSE k \in DOMAIN sub.reqs : sub.reqs[k].resp = Pending
    ELSE 0

Answered(sub, resp) ==
    [sub EXCEPT !.reqs[PendingReq(sub)].resp = resp]

\* A getVersion that takes the modern API for granted and never probes.
getVersionCall_NoProbe(t, cached) ==
    [kind |-> "live", refId |-> t.refId, expr |-> t.expr,
     stage |-> "resolved", ver |-> IF cached # "" THEN cached ELSE "v1",
     reqs |-> <<>>, emitted |-> <<>>]

\* getVersion, up to the request: the cached version, or a probe of the
\* modern endpoint.
getVersionCall(t, cached) ==
    IF cached # ""
    THEN [kind |-> "live", refId |-> t.refId, expr |-> t.expr,
          stage |-> "resolved", ver |-> cached,
          reqs |-> <<>>, emitted |-> <<>>]
    ELSE [kind |-> "live", refId |-> t.refId, expr |-> t.expr,
          stage |-> "version", ver |-> "",
          reqs |-> <<Request(RANGE_QUERY_ENDPOINT, "probe")>>,
          emitted |-> <<>>]

\* runLiveQuery: from(this.getVersion()) is evaluated at the call.
runLiveQuery(t, cached) == getVersionCall(t, cached)

\* runInstantQuery: the instant request is issued at the call, whatever
\* the target's liveStreaming.
runInstantQuery(t, responseListLength) ==
    [kind |-> "instant", refId |-> t.refId, expr |-> t.expr,
     responseListLength |-> responseListLength,
     stage |-> "instant", ver |-> "",
     reqs |-> <<Request(INSTANT_QUERY_ENDPOINT, "instant")>>,
     emitted |-> <<>>]

\* A range path that goes straight to the legacy endpoint once v0 is
\* cached.
runRangeQueryWithFallback_UsesCache(t, cached, responseListLength) ==
    IF t.liveStreaming
    THEN runLiveQuery(t, cached)
    ELSE [kind |-> "range", refId |-> t.refId, expr |-> t.expr,
          responseListLength |-> responseListLength,
          stage |-> IF cached = "v0" THEN "legacy" ELSE "modern", ver |-> "",
          reqs |-> <<IF cached = "v0"
                     THEN Request(LEGACY_QUERY_ENDPOINT, "legacy")
                     ELSE Request(RANGE_QUERY_ENDPOINT, "range")>>,
          emitted |-> <<>>]

\* runRangeQueryWithFallback, up to the request.
runRangeQueryWithFallback(t, cached, responseListLength) ==
    IF t.liveStreaming
    THEN runLiveQuery(t, cached)
    ELSE [kind |-> "range", refId |-> t.refId, expr |-> t.expr,
          responseListLength |-> responseListLength,
          stage |-> "modern", ver |-> "",
          reqs |-> <<Request(RANGE_QUERY_ENDPOINT, "range")>>,
          emitted |-> <<>>]

\* A fallback that asks the modern endpoint again and waits for its
\* answer as for the first one.
runLegacyQuery_RetryModern(sub) ==
    [sub EXCEPT !.stage = "modern",
                !.reqs = Append(@, Request(RANGE_QUERY_ENDPOINT, "range"))]

\* runLegacyQuery that sends the retry to the modern endpoint again.
runLegacyQuery_ModernEndpoint(sub) ==
    [sub EXCEPT !.stage = "legacy",
                !.reqs = Append(@, Request(RANGE_QUERY_ENDPOINT, "legacy"))]

\* runLegacyQuery called from the fallback of sub: the legacy request is
\* issued (the target is not live there: the range path has checked).
runLegacyQuery(sub) ==
    [sub EXCEPT !.stage = "legacy",
                !.reqs = Append(@, Request(LEGACY_QUERY_ENDPOINT, "legacy"))]

\* The filter of query() without the test of the expression.
filteredTargets_KeepEmpty(targets) ==
    SelectSeq(targets, LAMBDA t : ~t.hide)

\* The filter of query() without the hide flag.
filteredTargets_IgnoreHide(targets) ==
    SelectSeq(targets, LAMBDA t : t.expr # "")

\* query(): the targets that survive the filter.
filteredTargets(targets) ==
    SelectSeq(targets, LAMBDA t : t.expr # "" /\ ~t.hide)

\* A query() that starts the instant query in every mode.
subQueries_InstantAlways(exploreMode, ts, cached) ==
    [k \in 1..(2 * Len(ts)) |->
        IF k % 2 = 1
        THEN runInstantQuery(ts[(k + 1) \div 2], Len(ts))
        ELSE runRangeQueryWithFallback(ts[k \div 2], cached, Len(ts))]

\* query(): the sub-queries, in the order of subQueries.push.
subQueries(exploreMode, ts, cached) ==
    IF exploreMode = "Metrics"
    THEN [k \in 1..(2 * Len(ts)) |->
            IF k % 2 = 1
            THEN runInstantQuery(ts[(k + 1) \div 2], Len(ts))
            ELSE runRangeQueryWithFallback(ts[k \div 2], cached, Len(ts))]
    ELSE [k \in 1..Len(ts) |->
            runRangeQueryWithFallback(ts[k], cached, Len(ts))]

\* The map of query() that lets time series through in Logs mode.
queryMap_NoCheck(exploreMode, outcome) == outcome

\* query(): the map piped after runRangeQueryWithFallback outside Metrics
\* mode.
queryMap(exploreMode, outcome) ==
    IF exploreMode = "Metrics" \/ outcome.tag # "next"
    THEN outcome
    ELSE IF exploreMode = "Logs"
            /\ \E k \in DOMAIN outcome.val.data :
                   isTimeSeries(outcome.val.data[k])
         THEN Throws(PlainError(LogsModeMessage))
         ELSE outcome

\* ---------------------------------------------------------- LiveStreams
Urls == {TAIL_ENDPOINT, LEGACY_TAIL_ENDPOINT} \X (Exprs \ {""})

NoStreams == [u \in Urls |-> {}]

\* The subscriptions of the sub-executions in gone are torn down.
Detach(strs, gone) == [u \in Urls |-> strs[u] \ gone]

NoSockets == [u \in Urls |-> 0]

\* Sub-execution i subscribes to the stream of url u.
Attach(strs, u, i) == [strs EXCEPT ![u] = @ \cup {i}]

\* A manager that opens a connection for every subscriber.
Connect_PerSubscriber(socks, strs, u) == [socks EXCEPT ![u] = @ + 1]

\* The first subscriber of url u opens its connection; the later ones
\* share it.
Connect(socks, strs, u) ==
    IF strs[u] = {} THEN [socks EXCEPT ![u] = @ + 1] ELSE socks

\* The connection of a url is closed when its last subscriber has gone.
Disconnect(socks, strs) ==
    [u \in Urls |-> IF strs[u] = {} THEN 0 ELSE socks[u]]

\* ------------------------------------------------------------- merge
\* merge(...subQueries): what the outcome of sub-execution i (now sub1)
\* does to the merged output.  An error of one source is the error of the
\* merge, which unsubscribes from every other source; the merge completes
\* when every source has.
MergeStep(i, sub1, outcome, done) ==
    LET o == IF sub1.kind = "instant" THEN outcome
             ELSE queryMap(request.exploreMode, outcome)
    IN  IF o.tag = "error"
        THEN /\ subs' = [j \in DOMAIN subs |->
                           IF j = i THEN [sub1 EXCEPT !.stage = "failed"]
                           ELSE IF IsOpen(subs[j])
                                THEN [subs[j] EXCEPT !.stage = "aborted"]
                                ELSE subs[j]]
             /\ status' = "error"
             /\ failure' = o.val
             /\ streams' = Detach(streams, DOMAIN subs)
             /\ sockets' = Disconnect(sockets, Detach(streams, DOMAIN subs))
        ELSE LET sub2 == IF o.tag = "next"
                         THEN [sub1 EXCEPT !.emitted = Append(@, o.val)]
                         ELSE sub1
                 sub3 == IF done THEN [sub2 EXCEPT !.stage = "complete"]
                         ELSE sub2
             IN  /\ subs' = [subs EXCEPT ![i] = sub3]
                 /\ status' = IF \A j \in DOMAIN subs :
                                    IF j = i THEN ~IsOpen(sub3)
                                    ELSE ~IsOpen(subs[j])
                              THEN "complete" ELSE status
                 /\ UNCHANGED <<failure, streams, sockets>>

\* ------------------------------------------------------------ actions
Init ==
    /\ version \in {"", "v1", "v0"}
    /\ request \in QueryRequests \cup ContextRequests \cup TestRequests
    /\ status = "idle"
    /\ failure = NoError
    /\ direct = <<>>
    /\ subs = <<>>
    /\ streams = NoStreams
    /\ batches = 0
    /\ sockets = NoSockets
    /\ built = NotBuilt

\* query(options), subscribed to by the caller.
Query ==
    /\ status = "idle"
    /\ request.op = "query"
    /\ LET ts == filteredTargets(request.targets)
           qs == subQueries(request.exploreMode, ts, version)
       IN  /\ subs' = qs
           /\ IF qs = <<>>
              THEN /\ direct' = <<[data |-> <<>>, state |-> "Done"]>>
                   /\ status' = "complete"
              ELSE /\ direct' = direct
                   /\ status' = "active"
    /\ UNCHANGED <<version, request, failure, streams, batches, sockets, built>>

\* The chain of runInstantQuery without the check of the resultType.
instantOutcome_NoStreamsCheck(resp, refId, responseListLength) ==
    LET caught == IF resp.kind = "ok" THEN Emits(resp)
                  ELSE throwUnless(resp, resp.kind = "cancelled", refId)
    IN  IF caught.tag = "error" THEN caught
        ELSE IF caught.val.kind = "cancelled" THEN Nothing
        ELSE Emits([data |-> <<lokiResultsToTableModel(caught.val.body,
                                                        responseListLength)>>,
                    key |-> <<refId, "_instant">>])

\* runInstantQuery: catchError, filter and map applied to the answer.
instantOutcome(resp, refId, responseListLength) ==
    LET caught == IF resp.kind = "ok" THEN Emits(resp)
                  ELSE throwUnless(resp, resp.kind = "cancelled", refId)
    IN  IF caught.tag = "error" THEN caught
        ELSE IF caught.val.kind = "cancelled" THEN Nothing
        ELSE IF caught.val.body = "streams"
        THEN Throws(PlainError(MetricsModeMessage))
        ELSE Emits([data |-> <<lokiResultsToTableModel(caught.val.body,
                                                        responseListLength)>>,
                    key |-> <<refId, "_instant">>])

\* runInstantQuery: the answer of the instant request.
InstantResponse(i) ==
    /\ subs[i].kind = "instant" /\ subs[i].stage = "instant"
    /\ \E resp \in InstantResponses \cup ErrorResponses \cup {CancelledResponse} :
        LET sub1 == Answered(subs[i], resp)
        IN  MergeStep(i, sub1,
                      instantOutcome(resp, sub1.refId, sub1.responseListLength),
                      TRUE)
    /\ UNCHANGED <<version, request, direct, batches, built>>

\* The catchError of runRangeQueryWithFallback without the 404 exemption.
rangeCaught_No404(resp, refId) ==
    IF resp.kind = "ok" THEN Emits(resp)
    ELSE throwUnless(resp, resp.kind = "cancelled", refId)

\* runRangeQueryWithFallback: catchError applied to the answer.
rangeCaught(resp, refId) ==
    IF resp.kind = "ok" THEN Emits(resp)
    ELSE throwUnless(resp, resp.kind = "cancelled" \/ resp.status = 404, refId)

\* runRangeQueryWithFallback: the answer of the modern range request.
RangeResponse(i) ==
    /\ subs[i].kind = "range" /\ subs[i].stage = "modern"
    /\ \E resp \in RangeResponses \cup ErrorResponses \cup {CancelledResponse} :
        LET sub1 == Answered(subs[i], resp)
            caught == rangeCaught(resp, sub1.refId)
        IN  IF caught.tag = "error"
            THEN MergeStep(i, sub1, caught, TRUE)
            ELSE IF caught.val.kind = "cancelled"
            THEN MergeStep(i, sub1, Nothing, TRUE)
            ELSE IF caught.val.status = 404
            THEN MergeStep(i, runLegacyQuery(sub1), Nothing, FALSE)
            ELSE MergeStep(i, sub1,
                     Emits(processRangeQueryResponse(caught.val.body, sub1.refId,
                                                     sub1.responseListLength)),
                     TRUE)
    /\ UNCHANGED <<version, request, direct, batches, built>>

\* runLegacyQuery: catchError, filter and map applied to the answer.
legacyOutcome(resp, refId) ==
    LET caught == IF resp.kind = "ok" THEN Emits(resp)
                  ELSE throwUnless(resp, resp.kind = "cancelled", refId)
    IN  IF caught.tag = "error" THEN caught
        ELSE IF caught.val.kind = "cancelled" THEN Nothing
        ELSE Emits([data |-> lokiLegacyStreamsToDataframes(caught.val.body),
                    key |-> <<refId, "_log">>])

\* runLegacyQuery: the answer of the legacy request.
LegacyResponse(i) ==
    /\ subs[i].kind = "range" /\ subs[i].stage = "legacy"
    /\ \E resp \in LegacyResponses \cup ErrorResponses \cup {CancelledResponse} :
        LET sub1 == Answered(subs[i], resp)
        IN  MergeStep(i, sub1, legacyOutcome(resp, sub1.refId), TRUE)
    /\ UNCHANGED <<version, request, direct, batches, built>>

\* getVersion that takes every failure of the probe for a legacy backend.
probedVersion_AnyFailureLegacy(resp) ==
    IF resp.kind = "ok" THEN "v1" ELSE "v0"

\* getVersion: what the probe's answer sets the cache to.
probedVersion(resp) ==
    IF resp.kind = "ok" THEN "v1"
    ELSE IF resp.status # 404 THEN "v1" ELSE "v0"

\* getVersion: the answer of the probe.  The handlers hang on the promise,
\* so they run whether or not the live query is still subscribed.
ProbeResponse(i) ==
    /\ subs[i].kind = "live" /\ PendingReq(subs[i]) # 0
    /\ \E resp \in ProbeResponses :
        LET sub1 == Answered(subs[i], resp)
            v == probedVersion(resp)
        IN  /\ version' = v
            /\ subs' = [subs EXCEPT ![i] =
                          IF sub1.stage = "version"
                          THEN [sub1 EXCEPT !.stage = "resolved", !.ver = v]
                          ELSE sub1]
    /\ UNCHANGED <<request, status, failure, direct, streams, batches, sockets, built>>

\* A runLiveQuery that subscribes to the modern tail whatever the version.
liveUrl_AlwaysModern(sub) == <<TAIL_ENDPOINT, sub.expr>>

\* runLiveQuery: the socket url of the stream to subscribe to.
liveUrl(sub) ==
    IF sub.ver = "v1" THEN <<TAIL_ENDPOINT, sub.expr>>
    ELSE <<LEGACY_TAIL_ENDPOINT, sub.expr>>

\* runLiveQuery: mergeMap on the resolved version subscribes to the stream.
LiveSubscribe(i) ==
    /\ subs[i].stage = "resolved"
    /\ subs' = [subs EXCEPT ![i].stage = "streaming"]
    /\ streams' = Attach(streams, liveUrl(subs[i]), i)
    /\ sockets' = Connect(sockets, streams, liveUrl(subs[i]))
    /\ UNCHANGED <<version, request, status, failure, direct, batches, built>>

\* runLiveQuery: the map piped after the stream.
liveEnvelope(data, refId) ==
    [data |-> data, key |-> <<"loki-", refId>>, state |-> "Streaming"]

\* A batch arrives on the socket of url u: every attached live query
\* emits it.
LiveBatch(u) ==
    /\ streams[u] # {}
    /\ batches < MaxBatches
    /\ batches' = batches + 1
    /\ subs' = [j \in DOMAIN subs |->
                  IF j \in streams[u]
                  THEN [subs[j] EXCEPT !.emitted =
                          Append(@, liveEnvelope(
                                       <<[fields |-> <<"live", batches + 1>>]>>,
                                       subs[j].refId))]
                  ELSE subs[j]]
    /\ UNCHANGED <<version, request, status, failure, direct, streams, sockets, built>>

\* The caller unsubscribes from the observable query() returned.
Unsubscribe ==
    /\ status = "active"
    /\ request.op = "query"
    /\ status' = "unsubscribed"
    /\ subs' = [j \in DOMAIN subs |->
                  IF IsOpen(subs[j])
                  THEN [subs[j] EXCEPT !.stage = "unsubscribed"]
                  ELSE subs[j]]
    /\ streams' = Detach(streams, DOMAIN subs)
    /\ sockets' = Disconnect(sockets, Detach(streams, DOMAIN subs))
    /\ UNCHANGED <<version, request, failure, direct, batches, built>>

\* getLogRowContext, up to the request to the modern endpoint.
getLogRowContext ==
    [kind |-> "context", refId |-> "", expr |-> "",
     stage |-> "modern", ver |-> "",
     reqs |-> <<Request(RANGE_QUERY_ENDPOINT, "context")>>,
     emitted |-> <<>>]

\* getLogRowContext(row, options), called.
GetLogRowContext ==
    /\ status = "idle"
    /\ request.op = "context"
    /\ subs' = <<getLogRowContext>>
    /\ status' = "active"
    /\ UNCHANGED <<version, request, failure, direct, streams, batches, sockets, built>>

\* getLogRowContext: the DataQueryError of a failed context request.
contextError(err) ==
    [message |-> ContextErrorMessage, status |-> err.status,
     statusText |-> err.statusText]

\* getLogRowContext: the answer of the modern request.  The legacy request
\* is an argument of iif, built whenever the switchMap callback runs.
ContextResponse(i) ==
    /\ subs[i].kind = "context" /\ subs[i].stage = "modern"
    /\ \E resp \in ModernResponses({"streams"}) \cup ErrorResponses :
        LET sub1 == Answered(subs[i], resp)
            sub2 == [sub1 EXCEPT !.reqs =
                       Append(@, Request(LEGACY_QUERY_ENDPOINT, "context"))]
        IN  IF resp.kind = "err" /\ resp.status # 404
            THEN /\ subs' = [subs EXCEPT ![i] = [sub1 EXCEPT !.stage = "failed"]]
                 /\ status' = "error"
                 /\ failure' = contextError(resp)
            ELSE IF resp.status = 404
            THEN /\ subs' = [subs EXCEPT ![i] = [sub2 EXCEPT !.stage = "legacy"]]
                 /\ UNCHANGED <<status, failure>>
            ELSE /\ subs' = [subs EXCEPT ![i] =
                               [sub2 EXCEPT !.stage = "complete",
                                  !.emitted = Append(@,
                                     [data |-> contextFrames(
                                         "lokiStreamResultToDataFrame", resp.body,
                                         request.direction = "FORWARD")])]]
                 /\ status' = "complete"
                 /\ UNCHANGED failure
    /\ UNCHANGED <<version, request, direct, streams, batches, sockets, built>>

\* getLogRowContext: the answer of the legacy request after a 404.
ContextLegacyResponse(i) ==
    /\ subs[i].kind = "context" /\ subs[i].stage = "legacy"
    /\ \E resp \in LegacyResponses \cup ErrorResponses :
        LET sub1 == Answered(subs[i], resp)
        IN  IF resp.kind = "err"
            THEN /\ subs' = [subs EXCEPT ![i] = [sub1 EXCEPT !.stage = "failed"]]
                 /\ status' = "error"
                 /\ failure' = contextError(resp)
            ELSE /\ subs' = [subs EXCEPT ![i] =
                               [sub1 EXCEPT !.stage = "complete",
                                  !.emitted = Append(@,
                                     [data |-> contextFrames(
                                         "legacyLogStreamToDataFrame", resp.body,
                                         request.direction = "FORWARD")])]]
                 /\ status' = "complete"
                 /\ UNCHANGED failure
    /\ UNCHANGED <<version, request, direct, streams, batches, sockets, built>>

\* testDatasource, up to the request to the modern label endpoint.
testDatasource ==
    [kind |-> "test", refId |-> "", expr |-> "",
     stage |-> "modern", ver |-> "",
     reqs |-> <<Request(LABEL_ENDPOINT, "test")>>,
     emitted |-> <<>>]

\* testDatasource(), called.
TestDatasource ==
    /\ status = "idle"
    /\ request.op = "test"
    /\ subs' = <<testDatasource>>
    /\ status' = "active"
    /\ UNCHANGED <<version, request, failure, direct, streams, batches, sockets, built>>

\* A testDatasource that reports success for every answer.
testResult_AlwaysSuccess(res) ==
    [status |-> "success", message |-> "Data source connected and labels found."]

\* testDatasource: the map applied to the final response.
testResult(res) ==
    IF res.body = "values"
    THEN [status |-> "success",
          message |-> "Data source connected and labels found."]
    ELSE [status |-> "error",
          message |-> "Data source connected, but no labels received. Verify that Loki and Promtail is configured properly."]

\* testDatasource: the last catchError turns a failure into a result.
testFailure(err) ==
    [status |-> "error",
     message |-> <<"Loki: ",
                   IF err.statusText # "" THEN err.statusText
                   ELSE "Cannot connect to Loki",
                   err.status, err.body>>]

\* The promise of testDatasource resolves with result.
TestResolves(i, sub1, result) ==
    /\ subs' = [subs EXCEPT ![i] = [sub1 EXCEPT !.stage = "complete",
                                                !.emitted = Append(@, result)]]
    /\ status' = "complete"
    /\ UNCHANGED failure

\* testDatasource: the answer of the modern label request.
TestResponse(i) ==
    /\ subs[i].kind = "test" /\ subs[i].stage = "modern"
    /\ \E resp \in LabelResponses \cup ErrorResponses :
        LET sub1 == Answered(subs[i], resp)
        IN  IF resp.kind = "err" /\ resp.status # 404
            THEN TestResolves(i, sub1, testFailure(resp))
            ELSE IF resp.status = 404
            THEN /\ subs' = [subs EXCEPT ![i] =
                               [sub1 EXCEPT !.stage = "legacy",
                                  !.reqs = Append(@,
                                     Request(LEGACY_LABEL_ENDPOINT, "test"))]]
                 /\ UNCHANGED <<status, failure>>
            ELSE TestResolves(i, sub1, testResult(resp))
    /\ UNCHANGED <<version, request, direct, streams, batches, sockets, built>>

\* testDatasource: the answer of the legacy label request after a 404.
TestLegacyResponse(i) ==
    /\ subs[i].kind = "test" /\ subs[i].stage = "legacy"
    /\ \E resp \in LabelResponses \cup ErrorResponses :
        LET sub1 == Answered(subs[i], resp)
        IN  IF resp.kind = "err"
            THEN TestResolves(i, sub1, testFailure(resp))
            ELSE TestResolves(i, sub1, testResult(resp))
    /\ UNCHANGED <<version, request, direct, streams, batches, sockets, built>>

Next ==
    \/ Query
    \/ \E i \in DOMAIN subs : InstantResponse(i)
    \/ \E i \in DOMAIN subs : RangeResponse(i)
    \/ \E i \in DOMAIN subs : LegacyResponse(i)
    \/ \E i \in DOMAIN subs : ProbeResponse(i)
    \/ \E i \in DOMAIN subs : LiveSubscribe(i)
    \/ \E u \in Urls : LiveBatch(u)
    \/ Unsubscribe
    \/ GetLogRowContext
    \/ \E i \in DOMAIN subs : ContextResponse(i)
    \/ \E i \in DOMAIN subs : ContextLegacyResponse(i)
    \/ TestDatasource
    \/ \E i \in DOMAIN subs : TestResponse(i)
    \/ \E i \in DOMAIN subs : TestLegacyResponse(i)

Spec == Init /\ [][Next]_vars

\* Every request issued for an instant, range or legacy call is answered
\* in the end, by a response or a failure.
Answers ==
    /\ WF_vars(\E i \in DOMAIN subs : InstantResponse(i))
    /\ WF_vars(\E i \in DOMAIN subs : RangeResponse(i))
    /\ WF_vars(\E i \in DOMAIN subs : LegacyResponse(i))

\* The queries without live targets, and the steps they can take.
InitAnswered ==
    /\ Init
    /\ request.op = "query"
    /\ \A k \in DOMAIN request.targets : ~request.targets[k].liveStreaming

NextAnswered ==
    \/ Query
    \/ \E i \in DOMAIN subs : InstantResponse(i)
    \/ \E i \in DOMAIN subs : RangeResponse(i)
    \/ \E i \in DOMAIN subs : LegacyResponse(i)
    \/ Unsubscribe

SpecAnswered == InitAnswered /\ [][NextAnswered]_vars /\ Answers

\* ------------------------------------------------------ repeated calls
\* The same call made again on the instance once the previous one has
\* ended; the sub-executions of the earlier calls stay in subs.
MaxCalls == 2

\* The sub-executions one call of the request starts.
CallSubs(cached) ==
    IF request.op = "query"
    THEN subQueries(request.exploreMode, filteredTargets(request.targets),
                    cached)
    ELSE IF request.op = "context" THEN <<getLogRowContext>>
    ELSE <<testDatasource>>

\* Queries of one surviving target, context queries and tests.
RepeatedCalls ==
    {r \in QueryRequests :
        /\ Len(r.targets) = 1
        /\ r.targets[1].expr # ""
        /\ ~r.targets[1].hide}
    \cup ContextRequests \cup TestRequests

InitRepeat ==
    /\ Init
    /\ request \in RepeatedCalls

CallAgain ==
    /\ status \in {"complete", "error", "unsubscribed"}
    /\ Len(subs) < MaxCalls * Len(CallSubs(version))
    /\ subs' = subs \o CallSubs(version)
    /\ status' = "active"
    /\ failure' = NoError
    /\ UNCHANGED <<version, request, direct, streams, batches, sockets, built>>

NextRepeat ==
    \/ Next
    \/ CallAgain

SpecRepeat == InitRepeat /\ [][NextRepeat]_vars

\* ---------------------------------------------------- query parameters
\* The builders of the query parameters, as functions of the options of
\* the call and the instance's maxLines.  A time in nanoseconds since the
\* epoch does not fit a 32-bit integer: it is kept as [s, n], s
\* whole seconds and n the nanoseconds of the second, 0 <= n < 10^9; a
\* value in milliseconds (DateTime.valueOf(), row.timeEpochMs) is [s, ms]
\* likewise.  All times are at or after the epoch.

\* s seconds and n nanoseconds, n of any sign, as a time.
Nanos(s, n) == [s |-> s + (n \div 1000000000), n |-> n % 1000000000]

Plus(a, b) == Nanos(a.s + b.s, a.n + b.n)

Minus(a, b) == Nanos(a.s - b.s, a.n - b.n)

Leq(a, b) == a.s < b.s \/ (a.s = b.s /\ a.n <= b.n)

\* a: time, in JavaScript a % 1e9 for a time at or after the epoch.
Rem1e9(a) == Nanos(0, a.n)

\* Math.ceil(a / b) of integers, b > 0.
Ceil(a, b) == -((-a) \div b)

\* ms * 1e6: milliseconds to nanoseconds.
MsToNs(d) == Nanos(d.s, d.ms * 1000000)

DEFAULT_MAX_LINES == 1000

\* this.maxLines, from the number parseInt made of jsonData.maxLines (0
\* also stands for NaN: both are falsy).
maxLines(parsed) == IF parsed = 0 THEN DEFAULT_MAX_LINES ELSE parsed

\* Math.min(options.maxDataPoints || Infinity, this.maxLines); an absent
\* maxDataPoints is 0 here.
limitOf(maxDataPoints, ml) ==
    IF maxDataPoints = 0 \/ ml < maxDataPoints THEN ml ELSE maxDataPoints

\* getTime(date, roundUp) of a DateTime: Math.ceil(date.valueOf() * 1e6).
\* roundUp only matters to dates given as strings.
getTime(date, roundUp) == MsToNs(date)

adjustInterval_NoFloor(interval, range) ==
    IF interval # 0 /\ ((interval > 0 /\ range > 11000 * interval)
                         \/ (interval < 0 /\ range < 11000 * interval))
    THEN Ceil(range, 11000)
    ELSE interval

\* adjustInterval(interval, range), both in milliseconds.
adjustInterval(interval, range) ==
    LET over == interval # 0 /\ ((interval > 0 /\ range > 11000 * interval)
                                  \/ (interval < 0 /\ range < 11000 * interval))
        adjusted == IF over THEN Ceil(range, 11000) ELSE interval
    IN  IF adjusted > 1000 THEN adjusted ELSE 1000

alignedTimes_EndDown(startNs, endNs) ==
    [start |-> Minus(startNs, Rem1e9(startNs)),
     end   |-> Minus(endNs, Rem1e9(endNs))]

\* alignedTimes of createRangeQuery: the window widened to whole seconds.
alignedTimes(startNs, endNs) ==
    [start |-> Minus(startNs, Rem1e9(startNs)),
     end   |-> Plus(endNs, Minus(Nanos(1, 0), Rem1e9(endNs)))]

\* createRangeQuery(target, options): the parameters of a range request;
\* step is in seconds.
createRangeQuery(options, ml) ==
    IF options.intervalMs # 0
    THEN LET startNs == getTime(options.from, FALSE)
             endNs   == getTime(options.to, TRUE)
             diff    == Minus(endNs, startNs)
             rangeMs == diff.s * 1000 + Ceil(diff.n, 1000000)
             step    == Ceil(adjustInterval(options.intervalMs, rangeMs), 1000)
             aligned == alignedTimes(startNs, endNs)
         IN  [op |-> "createRangeQuery", start |-> aligned.start,
              end |-> aligned.end, step |-> step,
              limit |-> limitOf(options.maxDataPoints, ml)]
    ELSE [op |-> "createRangeQuery",
          limit |-> limitOf(options.maxDataPoints, ml)]

instantQuery_NoAlignment(options, ml) ==
    [op |-> "runInstantQuery", time |-> getTime(options.to, TRUE),
     limit |-> limitOf(options.maxDataPoints, ml)]

\* The parameters runInstantQuery sends.
instantQuery(options, ml) ==
    LET timeNs == getTime(options.to, TRUE)
    IN  [op |-> "runInstantQuery",
         time |-> Plus(timeNs, Minus(Nanos(1, 0), Rem1e9(timeNs))),
         limit |-> limitOf(options.maxDataPoints, ml)]

\* The parameters runLegacyQuery sends.
legacyQuery(options, ml) ==
    [op |-> "runLegacyQuery", start |-> getTime(options.from, FALSE),
     end |-> getTime(options.to, TRUE),
     limit |-> limitOf(options.maxDataPoints, ml)]

createLegacyLiveTarget(options, ml) ==
    [op |-> "createLiveTarget", endpoint |-> LEGACY_TAIL_ENDPOINT,
     size |-> limitOf(options.maxDataPoints, ml)]

createLiveTarget(options, ml) ==
    [op |-> "createLiveTarget", endpoint |-> TAIL_ENDPOINT,
     size |-> limitOf(options.maxDataPoints, ml)]

\* 2 * 60 * 60 * 1000 * 1e6: two hours of milliseconds, in nanoseconds.
contextTimeBuffer == MsToNs([s |-> 2 * 60 * 60, ms |-> 0])

prepareLogRowContextQueryTarget_BufferBefore(row, limit, direction) ==
    LET timeEpochNs == MsToNs(row.timeEpochMs)
    IN  [op |-> "prepareLogRowContextQueryTarget", limit |-> limit,
         direction |-> direction,
         start |-> Minus(timeEpochNs, contextTimeBuffer),
         end |-> timeEpochNs]

prepareLogRowContextQueryTarget(row, limit, direction) ==
    LET timeEpochNs == MsToNs(row.timeEpochMs)
    IN  IF direction = "BACKWARD"
        THEN [op |-> "prepareLogRowContextQueryTarget", limit |-> limit,
              direction |-> direction,
              start |-> Minus(timeEpochNs, contextTimeBuffer),
              end |-> timeEpochNs]
        ELSE [op |-> "prepareLogRowContextQueryTarget", limit |-> limit,
              direction |-> direction,
              start |-> timeEpochNs,
              end |-> Plus(timeEpochNs, contextTimeBuffer)]

\* The target getLogRowContext(row, options) sends to both endpoints; an
\* absent limit is 0 and an absent direction is "".
getLogRowContextTarget(row, options) ==
    prepareLogRowContextQueryTarget(
        row,
        IF options.limit # 0 THEN options.limit ELSE 10,
        IF options.direction # "" THEN options.direction ELSE "BACKWARD")

\* The inputs.  The windows lie around 11000 seconds, where the cap on the
\* data points of a range request decides.
MaxSkew == 1

Settings == {0, 5, 2000}

MaxDataPoints == {0, 3, 5000}

Dates == [s : {1580000000}, ms : {0, 1, 999}]

Spans == {1, 3600, 86400} \cup ((11000 - MaxSkew) .. (11000 + MaxSkew))

Windows ==
    {[from |-> d, to |-> [s |-> d.s + span, ms |-> ms]] :
        d \in Dates, span \in Spans, ms \in {0, 500}}

Intervals == {0, 1, 500, 1000, 1001, 2000, 60000}

QueryOptions ==
    {[from |-> w.from, to |-> w.to, intervalMs |-> i, maxDataPoints |-> m] :
        w \in Windows, i \in Intervals, m \in MaxDataPoints}

RangeCalls == [op : {"createRangeQuery"}, maxLines : Settings,
               options : QueryOptions]

InstantCalls ==
    [op : {"runInstantQuery"}, maxLines : Settings,
     options : {o \in QueryOptions : o.intervalMs = 1000}]

LegacyCalls ==
    [op : {"runLegacyQuery"}, maxLines : Settings,
     options : {o \in QueryOptions : o.intervalMs = 1000}]

LiveCalls ==
    [op : {"createLiveTarget"}, maxLines : Settings, ver : {"v1", "v0"},
     options : [maxDataPoints : MaxDataPoints]]

ContextCalls ==
    [op : {"getLogRowContext"}, maxLines : Settings,
     row : [timeEpochMs : Dates],
     options : [limit : {0, 3, 50}, direction : {"", "BACKWARD", "FORWARD"}]]

AdjustCalls ==
    [op : {"adjustInterval"},
     interval : Intervals \cup {-1000, 999},
     range : {0, 1000, 60000, 10989000, 10989001, 86400000}
               \cup {11000 * 1000 + k : k \in (0 - MaxSkew) .. MaxSkew}]

InitBuild ==
    /\ version = ""
    /\ request \in RangeCalls \cup InstantCalls \cup LegacyCalls
                     \cup LiveCalls \cup ContextCalls \cup AdjustCalls
    /\ status = "idle"
    /\ failure = NoError
    /\ direct = <<>>
    /\ subs = <<>>
    /\ streams = NoStreams
    /\ batches = 0
    /\ sockets = NoSockets
    /\ built = NotBuilt

Returns(params) ==
    /\ built = NotBuilt
    /\ built' = params
    /\ UNCHANGED <<version, request, status, failure, direct, subs, streams,
                   batches, sockets>>

CreateRangeQuery ==
    /\ request.op = "createRangeQuery"
    /\ Returns(createRangeQuery(request.options, maxLines(request.maxLines)))

InstantQuery ==
    /\ request.op = "runInstantQuery"
    /\ Returns(instantQuery(request.options, maxLines(request.maxLines)))

LegacyQuery ==
    /\ request.op = "runLegacyQuery"
    /\ Returns(legacyQuery(request.options, maxLines(request.maxLines)))

CreateLiveTarget ==
    /\ request.op = "createLiveTarget"
    /\ Returns(IF request.ver = "v0"
               THEN createLegacyLiveTarget(request.options,
                                           maxLines(request.maxLines))
               ELSE createLiveTarget(request.options,
                                     maxLines(request.maxLines)))

GetLogRowContextTarget ==
    /\ request.op = "getLogRowContext"
    /\ Returns(getLogRowContextTarget(request.row, request.options))

AdjustInterval ==
    /\ request.op = "adjustInterval"
    /\ Returns([op |-> "adjustInterval",
                interval |-> adjustInterval(request.interval, request.range)])

NextBuild ==
    \/ CreateRangeQuery
    \/ InstantQuery
    \/ LegacyQuery
    \/ CreateLiveTarget
    \/ GetLogRowContextTarget
    \/ AdjustInterval

SpecBuild == InitBuild /\ [][NextBuild]_vars

\* ------------------------------------------------------------- claims
\* The target of request.targets that sub-execution sub runs for.
TargetOf(sub) ==
    CHOOSE t \in {request.targets[k] : k \in DOMAIN request.targets} :
        t.refId = sub.refId

\* The answer the modern request of sub has been given.
FirstAnswer(sub) == IF sub.reqs = <<>> THEN Pending ELSE sub.reqs[1].resp

IsNotFound(resp) == resp.kind = "err" /\ resp.status = 404

\* C1: a range sub-execution whose modern request was answered 404 has
\* issued exactly one further request, to the legacy endpoint, and any
\* envelope it delivered is the legacy converter's output on the legacy
\* answer, keyed <refId>_log.
C1_FallbackUsesLegacy ==
    \A i \in DOMAIN subs :
        (subs[i].kind = "range" /\ IsNotFound(FirstAnswer(subs[i]))) =>
            /\ subs[i].reqs[1].endpoint = RANGE_QUERY_ENDPOINT
            /\ Len(subs[i].reqs) = 2
            /\ subs[i].reqs[2].endpoint = LEGACY_QUERY_ENDPOINT
            /\ Len(subs[i].emitted) <= 1
            /\ \A k \in DOMAIN subs[i].emitted :
                  /\ subs[i].reqs[2].resp.kind = "ok"
                  /\ subs[i].emitted[k] =
                        [data |-> <<[fields |-> <<"lokiLegacyStreamsToDataframes",
                                                  subs[i].reqs[2].resp.body>>]>>,
                         key |-> <<subs[i].refId, "_log">>]

\* C1 witness: a range sub-execution answered 404 on the modern endpoint
\* has delivered the envelope of its legacy answer.
C1_Witness ==
    \E i \in DOMAIN subs :
        /\ subs[i].kind = "range"
        /\ IsNotFound(FirstAnswer(subs[i]))
        /\ Len(subs[i].emitted) = 1
        /\ subs[i].stage = "complete"

\* C2: a range sub-execution whose modern request failed with a status
\* other than 404 (and was not cancelled) has failed the call with an error
\* carrying its refId and the failure's status and statusText, and has
\* issued no legacy request.
C2_RangeFailureIsDomainError ==
    \A i \in DOMAIN subs :
        (/\ subs[i].kind = "range"
         /\ FirstAnswer(subs[i]).kind = "err"
         /\ FirstAnswer(subs[i]).status # 404) =>
            /\ subs[i].stage = "failed"
            /\ status = "error"
            /\ Len(subs[i].reqs) = 1
            /\ subs[i].emitted = <<>>
            /\ DOMAIN failure = {"message", "refId", "status", "statusText"}
            /\ failure.refId = subs[i].refId
            /\ failure.status = FirstAnswer(subs[i]).status
            /\ failure.statusText = FirstAnswer(subs[i]).statusText

\* C2 witness: the second target's range request has failed with 500.
C2_Witness ==
    \E i \in DOMAIN subs :
        /\ subs[i].kind = "range"
        /\ subs[i].refId = "B"
        /\ FirstAnswer(subs[i]).kind = "err"
        /\ FirstAnswer(subs[i]).status = 500
        /\ status = "error"

\* C3: the failure of one target's sub-query does not abort the others:
\* no sub-execution of another target is torn down, its answer still
\* outstanding, because that sub-query failed.
C3_SiblingsSurviveFailure ==
    \A i, j \in DOMAIN subs :
        (subs[j].stage = "failed" /\ subs[i].refId # subs[j].refId) =>
            subs[i].stage # "aborted"

\* C4: when every target of the dispatch is hidden or has an empty
\* expression, the dispatch emits the one envelope {data: [], Done} and
\* completes, and nothing is sent: no sub-execution, request or socket.
C4_NoEligibleTargets ==
    (/\ request.op = "query"
     /\ status # "idle"
     /\ \A k \in DOMAIN request.targets :
            request.targets[k].hide \/ request.targets[k].expr = "") =>
        /\ direct = <<[data |-> <<>>, state |-> "Done"]>>
        /\ status = "complete"
        /\ subs = <<>>
        /\ streams = NoStreams

\* C4 witness: a dispatch of hidden and empty targets has completed.
C4_Witness ==
    /\ request.op = "query"
    /\ Len(request.targets) >= 2
    /\ \E k \in DOMAIN request.targets : request.targets[k].hide
    /\ \E k \in DOMAIN request.targets : request.targets[k].expr = ""
    /\ status = "complete"
    /\ Len(direct) = 1

\* C5: no instant, range or legacy HTTP request is issued on behalf of a
\* target with liveStreaming = true, in any query mode.
C5_LiveTargetIssuesNoQuery ==
    \A i \in DOMAIN subs :
        (request.op = "query" /\ TargetOf(subs[i]).liveStreaming) =>
            \A k \in DOMAIN subs[i].reqs :
                subs[i].reqs[k].op \notin {"instant", "range", "legacy"}

C7_InstantStreamsIsMismatch ==
    \A i \in DOMAIN subs :
        (subs[i].kind = "instant" /\ FirstAnswer(subs[i]).kind = "ok") =>
            IF FirstAnswer(subs[i]).body = "streams"
            THEN /\ subs[i].stage = "failed"
                 /\ subs[i].emitted = <<>>
                 /\ status = "error"
                 /\ failure.message = MetricsModeMessage
            ELSE /\ Len(subs[i].emitted) = 1
                 /\ subs[i].emitted[1].key = <<subs[i].refId, "_instant">>

\* C7 witness: one instant query has delivered its envelope and another
\* has failed on a streams answer.
C7_Witness ==
    \E i, j \in DOMAIN subs :
        /\ subs[i].kind = "instant"
        /\ FirstAnswer(subs[i]).kind = "ok"
        /\ Len(subs[i].emitted) = 1
        /\ subs[j].kind = "instant"
        /\ FirstAnswer(subs[j]).kind = "ok"
        /\ FirstAnswer(subs[j]).body = "streams"
        /\ subs[j].stage = "failed"

\* C8: in Logs mode a range result that holds a time series fails its
\* sub-query with the mode-mismatch error and is not delivered; in a mode
\* that is neither Logs nor Metrics the same result is delivered as it is.
C8_LogsModeRejectsTimeSeries ==
    \A i \in DOMAIN subs :
        (/\ subs[i].kind = "range"
         /\ FirstAnswer(subs[i]).kind = "ok"
         /\ FirstAnswer(subs[i]).body = "matrix") =>
            /\ request.exploreMode = "Logs" =>
                  /\ subs[i].stage = "failed"
                  /\ subs[i].emitted = <<>>
                  /\ status = "error"
                  /\ failure = [message |-> LogsModeMessage]
            /\ request.exploreMode = "None" =>
                  /\ Len(subs[i].emitted) = 1
                  /\ \E d \in DOMAIN subs[i].emitted[1].data :
                        "datapoints" \in DOMAIN subs[i].emitted[1].data[d]
                  /\ subs[i].stage # "failed"

\* C8 witness: in Logs mode a range query answered with a matrix has
\* failed.
C8_Witness ==
    \E i \in DOMAIN subs :
        /\ subs[i].kind = "range"
        /\ request.exploreMode = "Logs"
        /\ FirstAnswer(subs[i]).kind = "ok"
        /\ FirstAnswer(subs[i]).body = "matrix"
        /\ subs[i].stage = "failed"

\* The probe of live query sub is answered in this step.
ProbeAnsweredNow(i) ==
    /\ subs[i].kind = "live"
    /\ PendingReq(subs[i]) # 0
    /\ i \in DOMAIN subs'
    /\ PendingReq(subs'[i]) = 0

\* C9: getVersion never fails: when its probe is answered, the cache and
\* the value it resolves with are v1 for a success, v0 for a 404 and v1
\* for any other failure, and nothing is thrown at the caller; with a
\* cached version it resolves with the cache and sends no probe.
C9_GetVersionAlwaysResolves ==
    [][/\ \A i \in DOMAIN subs :
            ProbeAnsweredNow(i) =>
                LET resp == subs'[i].reqs[1].resp
                    expected == IF resp.kind = "ok" THEN "v1"
                                ELSE IF resp.status = 404 THEN "v0" ELSE "v1"
                IN  /\ subs[i].reqs[1].endpoint = RANGE_QUERY_ENDPOINT
                    /\ version' = expected
                    /\ subs[i].stage = "version" =>
                          /\ subs'[i].stage = "resolved"
                          /\ subs'[i].ver = expected
                    /\ status' = status
                    /\ failure' = failure
       /\ (subs = <<>> /\ version # "") =>
             \A i \in DOMAIN subs' :
                 subs'[i].kind = "live" =>
                     /\ subs'[i].reqs = <<>>
                     /\ subs'[i].stage = "resolved"
                     /\ subs'[i].ver = version]_vars

\* C9 witness: a probe answered 404 has resolved getVersion with v0 and
\* cached it.
C9_Witness ==
    \E i \in DOMAIN subs :
        /\ subs[i].kind = "live"
        /\ Len(subs[i].reqs) = 1
        /\ IsNotFound(FirstAnswer(subs[i]))
        /\ subs[i].ver = "v0"
        /\ version = "v0"

\* C10: once the cached version is set, no step changes it.
C10_VersionNeverChanges ==
    [][version # "" => version' = version]_vars

\* C11: no url ever has more than one connection open, a url with
\* subscribers has exactly one, and a batch arriving on it is emitted by
\* every live query attached to it.
C11_OneConnectionPerTarget ==
    [][/\ \A u \in Urls :
            /\ sockets'[u] <= 1
            /\ streams'[u] # {} => sockets'[u] = 1
       /\ batches' # batches =>
             \E u \in Urls :
                 /\ streams[u] # {}
                 /\ \A j \in streams[u] :
                       /\ Len(subs'[j].emitted) = Len(subs[j].emitted) + 1
                       /\ subs'[j].emitted[Len(subs'[j].emitted)].data
                              = <<[fields |-> <<"live", batches'>>]>>]_vars

\* C11 witness: two live queries are attached to the same url, one
\* connection is open and both have emitted its batch.
C11_Witness ==
    \E u \in Urls :
        /\ Cardinality(streams[u]) = 2
        /\ sockets[u] = 1
        /\ batches = 1
        /\ \A j \in streams[u] : Len(subs[j].emitted) = 1

\* C12: once the caller has unsubscribed from a dispatch, nothing of it
\* runs on: no request it issued is still in flight, no url has a
\* subscriber or an open connection, and no later step issues a request
\* or emits an envelope.
C12_CancelStopsEverything ==
    [][status' = "unsubscribed" =>
          /\ \A i \in DOMAIN subs' : PendingReq(subs'[i]) = 0
          /\ streams' = NoStreams
          /\ sockets' = NoSockets
          /\ status = "unsubscribed" =>
                /\ direct' = direct
                /\ \A i \in DOMAIN subs :
                      /\ Len(subs'[i].reqs) = Len(subs[i].reqs)
                      /\ subs'[i].emitted = subs[i].emitted]_vars

\* C13: the limit of every request built (range, instant, legacy and
\* context query) and the size of every live target is at most the
\* instance's maxLines.
C13_LimitWithinMaxLines ==
    /\ built.op \in {"createRangeQuery", "runInstantQuery", "runLegacyQuery",
                     "prepareLogRowContextQueryTarget"} =>
          built.limit <= maxLines(request.maxLines)
    /\ built.op = "createLiveTarget" =>
          built.size <= maxLines(request.maxLines)

\* C14: the context target of a row at T nanoseconds spans exactly two
\* hours: [T - 7200000000000, T] for BACKWARD and [T, T + 7200000000000]
\* for FORWARD.
C14_ContextWindowIsTwoHours ==
    built.op = "prepareLogRowContextQueryTarget" =>
        LET T == [s |-> request.row.timeEpochMs.s,
                  n |-> request.row.timeEpochMs.ms * 1000000]
        IN  /\ built.direction = "BACKWARD" =>
                  /\ built.start = [s |-> T.s - 7200, n |-> T.n]
                  /\ built.end = T
            /\ built.direction = "FORWARD" =>
                  /\ built.start = T
                  /\ built.end = [s |-> T.s + 7200, n |-> T.n]
            /\ built.direction \in {"BACKWARD", "FORWARD"}
            /\ built.end.s - built.start.s = 7200
            /\ built.end.n = built.start.n

\* C14 witness: a FORWARD target has been built for a row off the whole
\* second.
C14_Witness ==
    /\ built.op = "prepareLogRowContextQueryTarget"
    /\ built.direction = "FORWARD"
    /\ request.row.timeEpochMs.ms = 999
    /\ built.start.n = 999000000
    /\ built.end.s = request.row.timeEpochMs.s + 7200

\* C15: getLogRowContext sends its request to the modern endpoint first
\* and one to the legacy endpoint if and only if the modern endpoint
\* answered 404; after a successful modern answer no legacy request
\* exists.
C15_ContextLegacyOnlyAfterNotFound ==
    \A i \in DOMAIN subs :
        subs[i].kind = "context" =>
            /\ subs[i].reqs[1].endpoint = RANGE_QUERY_ENDPOINT
            /\ Len(subs[i].reqs) = 2 <=> IsNotFound(FirstAnswer(subs[i]))
            /\ Len(subs[i].reqs) = 2 =>
                  subs[i].reqs[2].endpoint = LEGACY_QUERY_ENDPOINT

\* C16: a range request built from a window and a non-zero interval has
\* start and end on whole seconds, start at or before the window's start
\* and end at or after the window's end.
C16_RangeAlignedSuperset ==
    (built.op = "createRangeQuery" /\ request.options.intervalMs # 0) =>
        /\ built.start.n = 0
        /\ built.end.n = 0
        /\ Leq(built.start, getTime(request.options.from, FALSE))
        /\ Leq(getTime(request.options.to, TRUE), built.end)

\* C16 witness: a range request built from a window that starts and ends
\* off the whole second.
C16_Witness ==
    /\ built.op = "createRangeQuery"
    /\ request.options.intervalMs # 0
    /\ request.options.from.ms = 999
    /\ request.options.to.ms = 500
    /\ built.start.s = request.options.from.s
    /\ built.end.s = request.options.to.s + 1

\* C17 as stated: when range / interval exceeds 11000 adjustInterval
\* returns ceil(range / 11000), and its result is never below 1000.
C17_AdjustedIsCeilOfRange ==
    built.op = "adjustInterval" =>
        /\ (request.interval > 0 /\ request.range > 11000 * request.interval) =>
              built.interval = Ceil(request.range, 11000)
        /\ built.interval >= 1000

\* C17: when range / interval exceeds 11000 adjustInterval returns the
\* larger of ceil(range / 11000) and 1000, and its result is never below
\* 1000.
C17_AdjustedIsCeilOrFloor ==
    built.op = "adjustInterval" =>
        /\ (request.interval > 0 /\ request.range > 11000 * request.interval) =>
              /\ Ceil(request.range, 11000) >= 1000 =>
                    built.interval = Ceil(request.range, 11000)
              /\ Ceil(request.range, 11000) < 1000 => built.interval = 1000
        /\ built.interval >= 1000

\* C17 witness: the interval of a long range has been raised to
\* ceil(range / 11000), above the floor.
C17_Witness ==
    /\ built.op = "adjustInterval"
    /\ request.interval = 1
    /\ request.range = 86400000
    /\ built.interval = 7855

\* C18: every live query started while no version is cached sends its own
\* probe of the modern endpoint, so a query with several live targets
\* leaves as many probes in flight as it has eligible live targets.
C18_EveryLiveQueryProbes ==
    [][(subs = <<>> /\ subs' # <<>> /\ version = "" /\ request.op = "query") =>
          /\ \A i \in DOMAIN subs' :
                subs'[i].kind = "live" =>
                    /\ subs'[i].stage = "version"
                    /\ Len(subs'[i].reqs) = 1
                    /\ subs'[i].reqs[1].op = "probe"
                    /\ subs'[i].reqs[1].endpoint = RANGE_QUERY_ENDPOINT
                    /\ subs'[i].reqs[1].resp = Pending
          /\ Cardinality({i \in DOMAIN subs' : subs'[i].kind = "live"})
                = Cardinality({k \in DOMAIN request.targets :
                                  /\ request.targets[k].liveStreaming
                                  /\ ~request.targets[k].hide
                                  /\ request.targets[k].expr # ""})]_vars

\* C18 witness: two probes of one instance are in flight at once and no
\* version is cached.
C18_Witness ==
    /\ version = ""
    /\ \E i, j \in DOMAIN subs :
          /\ i # j
          /\ subs[i].kind = "live" /\ subs[j].kind = "live"
          /\ subs[i].reqs # <<>> /\ subs[j].reqs # <<>>
          /\ subs[i].reqs[1].op = "probe" /\ subs[i].reqs[1].resp = Pending
          /\ subs[j].reqs[1].op = "probe" /\ subs[j].reqs[1].resp = Pending

\* C19: the number of steps of a range request, (end - start) over
\* step * 1e9 on the aligned start and end, is at most 11000.
C19_StepsWithinCap ==
    (built.op = "createRangeQuery" /\ request.options.intervalMs # 0) =>
        /\ built.start.n = 0
        /\ built.end.n = 0
        /\ built.end.s - built.start.s <= 11000 * built.step

\* C20 as stated: the time of an instant request is window.to in
\* nanoseconds when window.to is on a whole second, and otherwise the
\* smallest multiple of 1e9 above it.
C20_InstantTimeRoundsUp ==
    built.op = "runInstantQuery" =>
        built.time = IF request.options.to.ms = 0
                     THEN [s |-> request.options.to.s, n |-> 0]
                     ELSE [s |-> request.options.to.s + 1, n |-> 0]

\* C21: a live query whose version is not resolved yet is subscribed to no
\* stream and has emitted nothing; a subscribed live query has a resolved
\* version and is attached to the modern tail url of its expression if
\* and only if that version is v1, to the legacy tail url otherwise; every
\* envelope it has emitted has state Streaming and key loki-<refId>.
C21_LiveSubscribesPerVersion ==
    \A i \in DOMAIN subs :
        subs[i].kind = "live" =>
            /\ subs[i].stage = "version" =>
                  /\ \A u \in Urls : i \notin streams[u]
                  /\ subs[i].emitted = <<>>
                  /\ subs[i].ver = ""
            /\ \A u \in Urls :
                  i \in streams[u] =>
                      /\ subs[i].stage = "streaming"
                      /\ PendingReq(subs[i]) = 0
                      /\ subs[i].ver \in {"v1", "v0"}
                      /\ u[2] = subs[i].expr
                      /\ u[1] = TAIL_ENDPOINT <=> subs[i].ver = "v1"
                      /\ u[1] = LEGACY_TAIL_ENDPOINT <=> subs[i].ver # "v1"
            /\ subs[i].stage = "streaming" =>
                  \E u \in Urls : i \in streams[u]
            /\ \A k \in DOMAIN subs[i].emitted :
                  /\ subs[i].emitted[k].state = "Streaming"
                  /\ subs[i].emitted[k].key = <<"loki-", subs[i].refId>>

\* C21 witness: a live query resolved to v0 by its probe is attached to
\* the legacy tail url and has emitted a batch.
C21_Witness ==
    \E i \in DOMAIN subs :
        /\ subs[i].kind = "live"
        /\ subs[i].ver = "v0"
        /\ Len(subs[i].reqs) = 1
        /\ i \in streams[<<LEGACY_TAIL_ENDPOINT, subs[i].expr>>]
        /\ Len(subs[i].emitted) = 1

\* The sub-executions of the given kinds started for the target refId.
Started(refId, kinds) ==
    Cardinality({i \in DOMAIN subs :
                    subs[i].refId = refId /\ subs[i].kind \in kinds})

\* C22: once query() has run, in Metrics mode every surviving target that
\* is not live has exactly one instant and one range sub-execution; in any
\* other mode every surviving target has no instant sub-execution and
\* exactly one started by runRangeQueryWithFallback (a range one, or the
\* live query it delegates to for a live target).
C22_ExecutionsPerTarget ==
    (request.op = "query" /\ status # "idle") =>
        \A k \in DOMAIN request.targets :
            LET t == request.targets[k]
            IN  (t.expr # "" /\ ~t.hide) =>
                    IF request.exploreMode = "Metrics"
                    THEN ~t.liveStreaming =>
                            /\ Started(t.refId, {"instant"}) = 1
                            /\ Started(t.refId, {"range"}) = 1
                            /\ Started(t.refId, {"live"}) = 0
                    ELSE /\ Started(t.refId, {"instant"}) = 0
                         /\ Started(t.refId, {"range", "live"}) = 1
                         /\ Started(t.refId, {"live"}) = 1 <=> t.liveStreaming

\* C22 witness: a Metrics query of two surviving targets that are not live
\* has started four sub-executions.
C22_Witness ==
    /\ request.op = "query"
    /\ request.exploreMode = "Metrics"
    /\ Len(request.targets) = 2
    /\ \A k \in DOMAIN request.targets :
          /\ request.targets[k].expr # ""
          /\ ~request.targets[k].hide
          /\ ~request.targets[k].liveStreaming
    /\ Len(subs) = 4
    /\ Started("A", {"instant"}) = 1
    /\ Started("B", {"range"}) = 1

\* The targets of the request that survive the filter of query().
Surviving ==
    {k \in DOMAIN request.targets :
        request.targets[k].expr # "" /\ ~request.targets[k].hide}

\* C23: every sub-execution of a query, with the requests it issued and
\* the envelopes it emitted, belongs to a target that is neither hidden
\* nor without expression, and the responseListLength given to
\* lokiResultsToTableModel and processRangeQueryResponse is the number of
\* surviving targets.
C23_FilteredTargetsProduceNothing ==
    request.op = "query" =>
        /\ \A k \in DOMAIN request.targets :
              k \notin Surviving =>
                  Started(request.targets[k].refId,
                          {"instant", "range", "live"}) = 0
        /\ \A i \in DOMAIN subs :
              /\ \E k \in Surviving : request.targets[k].refId = subs[i].refId
              /\ subs[i].kind \in {"instant", "range"} =>
                    subs[i].responseListLength = Cardinality(Surviving)
              /\ subs[i].kind = "instant" =>
                    \A e \in DOMAIN subs[i].emitted :
                        subs[i].emitted[e].data[1].columns[3]
                            = Cardinality(Surviving)
              /\ (subs[i].kind = "range" /\ Len(subs[i].reqs) = 1) =>
                    \A e \in DOMAIN subs[i].emitted :
                        LET d == subs[i].emitted[e].data[1]
                        IN  IF isTimeSeries(d)
                            THEN d.datapoints[3] = Cardinality(Surviving)
                            ELSE d.fields[3] = Cardinality(Surviving)

\* C23 witness: a query of one surviving target and one that is hidden or
\* has no expression has emitted a table converted with
\* responseListLength 1.
C23_Witness ==
    /\ request.op = "query"
    /\ Len(request.targets) = 2
    /\ Cardinality(Surviving) = 1
    /\ \E i \in DOMAIN subs :
          /\ subs[i].kind = "instant"
          /\ Len(subs[i].emitted) = 1
          /\ subs[i].emitted[1].data[1].columns[3] = 1

\* C24: the error a failed query delivers carries the refId of the target
\* whose sub-execution failed, whether a request of it failed or its
\* result did not fit the mode.
C24_EveryErrorCarriesRefId ==
    (request.op = "query" /\ status = "error") =>
        /\ "refId" \in DOMAIN failure
        /\ \E i \in DOMAIN subs :
              /\ subs[i].stage = "failed"
              /\ failure.refId = subs[i].refId

\* C26: testDatasource requests the modern label endpoint, requests the
\* legacy one exactly when the first answer is 404, never rejects, and as
\* soon as its last request is answered it has resolved with one result:
\* success if and only if that answer is a response with a non-empty
\* values array, error for an empty values array and for any failure.
C26_TestDatasourceAlwaysResolves ==
    request.op = "test" =>
        /\ status # "error"
        /\ failure = NoError
        /\ \A i \in DOMAIN subs :
              LET sub == subs[i]
                  final == sub.reqs[Len(sub.reqs)].resp
              IN  /\ sub.kind = "test"
                  /\ sub.reqs[1].endpoint = LABEL_ENDPOINT
                  /\ Len(sub.reqs) = 2 <=> IsNotFound(FirstAnswer(sub))
                  /\ Len(sub.reqs) = 2 =>
                        sub.reqs[2].endpoint = LEGACY_LABEL_ENDPOINT
                  /\ Len(sub.reqs) <= 2
                  /\ final = Pending => (sub.emitted = <<>> /\ status = "active")
                  /\ final # Pending =>
                        /\ status = "complete"
                        /\ Len(sub.emitted) = 1
                        /\ sub.emitted[1].status \in {"success", "error"}
                        /\ sub.emitted[1].status = "success" <=>
                              (final.kind = "ok" /\ final.body = "values")

\* C26 witness: the modern label endpoint answered 404 and the legacy one
\* answered with labels: testDatasource has resolved with success.
C26_Witness ==
    /\ request.op = "test"
    /\ \E i \in DOMAIN subs :
          /\ Len(subs[i].reqs) = 2
          /\ IsNotFound(subs[i].reqs[1].resp)
          /\ subs[i].reqs[2].resp.kind = "ok"
          /\ subs[i].emitted = <<testResult(subs[i].reqs[2].resp)>>
          /\ subs[i].emitted[1].status = "success"

\* C25: no step other than the answer to a probe of getVersion changes
\* the cached version, whether the step belongs to a range, instant,
\* legacy, context or test call; and every range call, also one made
\* after a call that fell back to the legacy endpoint, sends its first
\* request to the modern endpoint.
C25_FallbackIsPerCall ==
    [][/\ version' # version => \E i \in DOMAIN subs : ProbeAnsweredNow(i)
       /\ \A i \in DOMAIN subs' :
             subs'[i].kind = "range" =>
                 /\ subs'[i].reqs[1].endpoint = RANGE_QUERY_ENDPOINT
                 /\ Len(subs'[i].reqs) = 2 =>
                       /\ IsNotFound(subs'[i].reqs[1].resp)
                       /\ subs'[i].reqs[2].endpoint = LEGACY_QUERY_ENDPOINT]_vars

\* C25 witness: a range call fell back to the legacy endpoint, the cached
\* version is still unset and the next range call for the same target has
\* sent its request to the modern endpoint.
C25_Witness ==
    /\ version = ""
    /\ \E i, j \in DOMAIN subs :
          /\ i < j
          /\ subs[i].kind = "range" /\ subs[j].kind = "range"
          /\ subs[i].refId = subs[j].refId
          /\ Len(subs[i].reqs) = 2
          /\ subs[i].stage = "complete"
          /\ Len(subs[i].emitted) = 1
          /\ subs[j].reqs[1].endpoint = RANGE_QUERY_ENDPOINT
          /\ subs[j].reqs[1].resp = Pending

\* C27: when every request is answered in the end, from some point on
\* every instant and range sub-execution has left its open stages for
\* good: it has completed or failed, or was torn down with a dispatch
\* that failed or was cancelled; and it never issues more than two
\* requests, the second being the one legacy retry after a 404.
C27_NonLiveTerminates ==
    /\ <>[](\A i \in DOMAIN subs :
               subs[i].kind \in {"instant", "range"} =>
                   \/ subs[i].stage \in {"complete", "failed"}
                   \/ /\ subs[i].stage \in {"aborted", "unsubscribed"}
                      /\ status \in {"error", "unsubscribed"})
    /\ [](\A i \in DOMAIN subs :
             subs[i].kind \in {"instant", "range"} =>
                 /\ Len(subs[i].reqs) <= 2
                 /\ subs[i].kind = "instant" => Len(subs[i].reqs) = 1
                 /\ Len(subs[i].reqs) = 2 =>
                       /\ IsNotFound(subs[i].reqs[1].resp)
                       /\ subs[i].reqs[2].endpoint = LEGACY_QUERY_ENDPOINT)

\* C27 witness: a range sub-execution has completed after its one legacy
\* retry while the instant sub-execution of the same target has completed
\* too.
C27_Witness ==
    \E i, j \in DOMAIN subs :
        /\ subs[i].kind = "range" /\ subs[j].kind = "instant"
        /\ subs[i].refId = subs[j].refId
        /\ Len(subs[i].reqs) = 2
        /\ PendingReq(subs[i]) = 0
        /\ subs[i].stage = "complete"
        /\ subs[j].stage = "complete"
        /\ status = "complete"
====
